---- MODULE Spec2Model ----
(***************************************************************************)
(* Model of the POSIX path module of pypp (src/src/posix/path.cpp) and of  *)
(* the string helpers it uses (src/src/string.cpp).                        *)
(*                                                                         *)
(* A std::string is a sequence of one-character strings, so that the       *)
(* text of "/a" is <<"/", "a">>.  A PurePosixPath is its parts_ member: a  *)
(* sequence of such texts.                                                 *)
(***************************************************************************)
EXTENDS Integers, Sequences, FiniteSets, TLC

\* ------------------------------------------------------------------------
\* Bounds
\* ------------------------------------------------------------------------

\* Longest text handed to the free functions (normpath).
MaxText == 7

\* Longest text handed to a PurePosixPath constructor, and longest rendering
\* of a path kept by the path state machine.
MaxLen == 3

\* Longest text argument of joinpath / with_name / with_suffix, and longest
\* text a path argument is built from.
MaxArg == 2

\* Size of the lists of parts handed to join: the number of parts plus the
\* number of characters in them is at most MaxJoin + 1.
MaxJoin == 6

\* Largest number of entries other programs put into the filesystem before
\* the program under test runs.
MaxEntries == 3

\* The alphabet: the separator, the dot and one ordinary character.
Chars == {"/", ".", "a"}

Texts(n) == UNION {[1..k -> Chars] : k \in 0..n}

\* ------------------------------------------------------------------------
\* String helpers (src/src/string.cpp)
\* ------------------------------------------------------------------------

Min(S) == CHOOSE x \in S : \A y \in S : x <= y
Max(S) == CHOOSE x \in S : \A y \in S : x >= y

\* std::string::substr(pos, n) with 1-based positions [from, to]
substr(str, from, to) == SubSeq(str, from, IF to > Len(str) THEN Len(str) ELSE to)

\* std::string::find(sub, beg): 1-based position of the first occurrence at
\* or after beg; 0 stands for npos
find(str, sub, beg) ==
    LET hits == {i \in beg..(Len(str) - Len(sub) + 1) :
                     SubSeq(str, i, i + Len(sub) - 1) = sub}
    IN  IF hits = {} THEN 0 ELSE Min(hits)

\* std::string::rfind(sub): 1-based position of the last occurrence, 0 = npos
rfind(str, sub) ==
    LET hits == {i \in 1..(Len(str) - Len(sub) + 1) :
                     SubSeq(str, i, i + Len(sub) - 1) = sub}
    IN  IF hits = {} THEN 0 ELSE Max(hits)

startswith(str, prefix) == substr(str, 1, Len(prefix)) = prefix

endswith(str, suffix) ==
    IF Len(suffix) > Len(str) THEN FALSE
    ELSE SubSeq(str, Len(str) - Len(suffix) + 1, Len(str)) = suffix

\* str::rstrip(str, chars): chars is a set of characters
rstrip(str, chars) ==
    LET keep == {i \in 1..Len(str) : str[i] \notin chars}
    IN  IF keep = {} THEN <<>> ELSE SubSeq(str, 1, Max(keep))

\* std::string::find_first_not_of(chars) != npos
has_other_than(str, chars) == \E i \in 1..Len(str) : str[i] \notin chars

RECURSIVE str_join_from(_, _, _, _)
str_join_from(items, sp, i, joined) ==
    IF i > Len(items) THEN joined
    ELSE str_join_from(items, sp, i + 1, joined \o sp \o items[i])

\* str::join(items, sep); items is never empty where the module calls it
str_join(items, sp) == str_join_from(items, sp, 2, items[1])

RECURSIVE str_split_from(_, _, _)
str_split_from(str, sp, beg) ==
    IF beg > Len(str) + 1 THEN <<>>
    ELSE LET found == find(str, sp, beg)
             end   == IF found = 0 THEN Len(str) + 1 ELSE found
         IN  <<SubSeq(str, beg, end - 1)>> \o str_split_from(str, sp, end + Len(sp))

\* str::split(str, sep) with maxsplit = -1
str_split(str, sp) == str_split_from(str, sp, 1)

\* ------------------------------------------------------------------------
\* Free functions of the path module (src/src/posix/path.cpp)
\* ------------------------------------------------------------------------

sep == <<"/">>
current == <<".">>
parentdir == <<".", ".">>

isabs(path) == startswith(path, sep)

\* join with the separator added after every part but the last, whether or
\* not the accumulated text already ends in one
RECURSIVE join_loop_always_sep(_, _, _)
join_loop_always_sep(parts, i, joined) ==
    IF i > Len(parts) THEN joined
    ELSE LET j1 == IF startswith(parts[i], sep) THEN parts[i] ELSE joined \o parts[i]
             j2 == IF i # Len(parts) THEN j1 \o sep ELSE j1
         IN  join_loop_always_sep(parts, i + 1, j2)

RECURSIVE join_loop(_, _, _)
join_loop(parts, i, joined) ==
    IF i > Len(parts) THEN joined
    ELSE LET j1 == IF startswith(parts[i], sep) THEN parts[i] ELSE joined \o parts[i]
             j2 == IF ~endswith(j1, sep) /\ i # Len(parts) THEN j1 \o sep ELSE j1
         IN  join_loop(parts, i + 1, j2)

\* join that strips the trailing separators of its result
join_no_trailing(parts) ==
    LET joined == join_loop(parts, 1, <<>>)
    IN  IF has_other_than(joined, {"/"}) THEN rstrip(joined, {"/"}) ELSE joined

\* path::join(parts).  For an empty list the loop body never runs and the
\* result is the empty text (normpath("") == "." in the tests relies on it).
join(parts) == join_loop(parts, 1, <<>>)

\* deque::pop_back
pop_back(parts) == SubSeq(parts, 1, Len(parts) - 1)

\* push_back as push_front: the segment goes to the wrong end of the deque
push_front(parts, item) == <<item>> \o parts

\* deque::push_back
push_back(parts, item) == Append(parts, item)

RECURSIVE normpath_loop(_, _, _, _)
normpath_loop(items, level, parts, abs) ==
    IF items = <<>> THEN parts
    ELSE LET item == Head(items)
             rest == Tail(items)
         IN  IF item = <<>> \/ item = current
             THEN normpath_loop(rest, level, parts, abs)
             ELSE IF item = parentdir
             THEN IF level - 1 >= 0
                  THEN normpath_loop(rest, level - 1, pop_back(parts), abs)
                  ELSE IF ~abs
                  THEN normpath_loop(rest, level - 1, push_back(parts, parentdir), abs)
                  ELSE normpath_loop(rest, level - 1, parts, abs)
             ELSE normpath_loop(rest, level + 1, push_back(parts, item), abs)

normpath(path) ==
    LET parts  == normpath_loop(str_split(path, sep), 0, <<>>, isabs(path))
        normed == join(parts)
    IN  IF isabs(path) THEN sep \o normed
        ELSE IF normed = <<>> THEN current
        ELSE normed

\* The statements of normpath after its loop: join the retained parts, then
\* put the separator in front of an absolute path or replace an empty
\* relative result by "."
normpath_result(path, parts) ==
    LET normed == join(parts)
    IN  IF isabs(path) THEN sep \o normed
        ELSE IF normed = <<>> THEN current
        ELSE normed

\* split that strips the trailing separators of every root, also of a root
\* made of separators only
split_always_strip(path) ==
    LET pos == rfind(path, sep)
    IN  IF pos = 0
        THEN [first |-> <<>>, second |-> path]
        ELSE [first  |-> rstrip(SubSeq(path, 1, pos), {"/"}),
              second |-> SubSeq(path, pos + 1, Len(path))]

\* path::split(path): the pair (root, name)
split(path) ==
    LET pos == rfind(path, sep)
    IN  IF pos = 0
        THEN [first |-> <<>>, second |-> path]
        ELSE LET root == SubSeq(path, 1, pos)
             IN  [first  |-> IF has_other_than(root, {"/"})
                             THEN rstrip(root, {"/"})
                             ELSE root,
                  second |-> SubSeq(path, pos + 1, Len(path))]

dirname(path) == split(path).first

basename(path) == split(path).second

\* splitext without the test for a dot at the front of the text
splitext_any_dot(path) ==
    LET pos == rfind(path, <<".">>)
    IN  IF pos = 0
        THEN [root |-> path, ext |-> <<>>]
        ELSE [root |-> SubSeq(path, 1, pos - 1), ext |-> SubSeq(path, pos, Len(path))]

splitext(path) ==
    LET pos == rfind(path, <<".">>)
    IN  IF pos = 1 \/ pos = 0
        THEN [root |-> path, ext |-> <<>>]
        ELSE [root |-> SubSeq(path, 1, pos - 1), ext |-> SubSeq(path, pos, Len(path))]

\* ------------------------------------------------------------------------
\* PurePosixPath: a value is its parts_ vector
\* ------------------------------------------------------------------------

PurePosixPath(path) ==
    LET abs   == isabs(path)
        rest  == IF abs THEN Tail(path) ELSE path
        head  == IF abs THEN <<sep>> ELSE <<>>
        parts == str_split(normpath(rest), sep)
    IN  IF Len(parts) > 1 \/ parts[1] # current THEN head \o parts ELSE head

is_absolute(parts_) == IF parts_ = <<>> THEN FALSE ELSE parts_[1] = sep

is_root(parts_) == parts_ = <<>> \/ (Len(parts_) = 1 /\ is_absolute(parts_))

string(parts_) ==
    LET result == IF parts_ = <<>> THEN current ELSE str_join(parts_, sep)
    IN  IF is_absolute(parts_) /\ Len(parts_) > 1 THEN Tail(result) ELSE result

\* joinpath(const std::string&); the PurePosixPath overload passes
\* string(other)
joinpath(parts_, other) == PurePosixPath(join(<<string(parts_), other>>))

\* operator/ in both overloads
div(parts_, other) == joinpath(parts_, other)

name(parts_) == IF is_root(parts_) THEN <<>> ELSE parts_[Len(parts_)]

\* parent() that pops the last segment of a root as well
parent_unguarded(parts_) == pop_back(parts_)

parent(parts_) == IF ~is_root(parts_) THEN pop_back(parts_) ELSE parts_

\* std::mismatch(other.begin(), other.end(), parts_.begin()): index of the
\* first position where the two differ, Len(other) + 1 when there is none
mismatch(other, parts_) ==
    LET diffs == {i \in 1..Len(other) : other[i] # parts_[i]}
    IN  IF diffs = {} THEN Len(other) + 1 ELSE Min(diffs)

\* The outcome of a call: the returned parts_, or thrown = TRUE for
\* std::invalid_argument
Return(parts_) == [thrown |-> FALSE, parts |-> parts_]
Throw == [thrown |-> TRUE, parts |-> <<>>]

\* relative_to with the size test off by one: a path is no longer relative to
\* itself
relative_to_strict(parts_, other) ==
    IF Len(parts_) <= Len(other) THEN Throw
    ELSE LET diff == mismatch(other, parts_)
         IN  IF diff # Len(other) + 1 /\ other # <<>> THEN Throw
             ELSE Return(SubSeq(parts_, diff, Len(parts_)))

relative_to(parts_, other) ==
    IF Len(parts_) < Len(other) THEN Throw
    ELSE LET diff == mismatch(other, parts_)
         IN  IF diff # Len(other) + 1 /\ other # <<>> THEN Throw
             ELSE Return(SubSeq(parts_, diff, Len(parts_)))

stem(parts_) ==
    LET st == splitext(name(parts_)).root
    IN  IF st = <<".">> THEN <<>>
        ELSE IF parts_ # <<>> /\ endswith(parts_[Len(parts_)], <<".">>) THEN st \o <<".">>
        ELSE st

suffix(parts_) ==
    LET sf == splitext(name(parts_)).ext
    IN  IF sf = <<".">> THEN <<>> ELSE sf

\* regex "^[^.][^/]*$"
valid_name(nm) ==
    /\ Len(nm) >= 1
    /\ nm[1] # "."
    /\ \A i \in 2..Len(nm) : nm[i] # "/"

\* regex "^\\.[^/]+$"
valid_suffix(sf) ==
    /\ Len(sf) >= 2
    /\ sf[1] = "."
    /\ \A i \in 2..Len(sf) : sf[i] # "/"

with_name(parts_, nm) ==
    IF ~valid_name(nm) THEN Throw
    ELSE IF name(parts_) = <<>> THEN Throw
    ELSE Return(div(parent(parts_), nm))

\* with_suffix routed through with_name, which validates the new name again
with_suffix_via_with_name(parts_, sf) ==
    IF ~(sf = <<>> \/ valid_suffix(sf)) THEN Throw
    ELSE IF name(parts_) = <<>> THEN Throw
    ELSE with_name(parts_, stem(parts_) \o sf)

with_suffix(parts_, sf) ==
    IF ~(sf = <<>> \/ valid_suffix(sf)) THEN Throw
    ELSE IF name(parts_) = <<>> THEN Throw
    ELSE Return(div(parent(parts_), stem(parts_) \o sf))

root(parts_) == IF is_absolute(parts_) THEN sep ELSE <<>>

\* "." + *pos for every element after the stem
RECURSIVE dotted(_)
dotted(items) ==
    IF items = <<>> THEN <<>> ELSE <<<<".">> \o Head(items)>> \o dotted(Tail(items))

\* suffixes without the test for a name that starts or ends with "."
suffixes_unguarded(parts_) ==
    dotted(Tail(str_split(name(parts_), <<".">>)))

suffixes(parts_) ==
    LET nm == name(parts_)
    IN  IF startswith(nm, <<".">>) \/ endswith(nm, <<".">>) THEN <<>>
        ELSE dotted(Tail(str_split(nm, <<".">>)))

\* The loop of parents(): acc is the vector built so far
RECURSIVE parents_loop(_, _)
parents_loop(parts_, acc) ==
    IF is_root(parts_) THEN acc
    ELSE parents_loop(parent(parts_), Append(acc, parent(parts_)))

parents(parts_) == parents_loop(parts_, <<>>)

\* operator== and operator!= compare parts_
eq(parts_, other) == parts_ = other

ne(parts_, other) == ~(parts_ = other)

\* The value of a character (its code in the execution character set)
ord(c) == CASE c = "." -> 46 [] c = "/" -> 47 [] OTHER -> 97

\* std::string operator<: lexicographic comparison
string_lt(a, b) ==
    \E k \in 1..(Len(a) + 1) :
        /\ k <= Len(b)
        /\ SubSeq(a, 1, k - 1) = SubSeq(b, 1, k - 1)
        /\ k = Len(a) + 1 \/ ord(a[k]) < ord(b[k])

\* operator< compares the rendered texts
lt(parts_, other) == string_lt(string(parts_), string(other))

\* ------------------------------------------------------------------------
\* PosixPath: a value is its base_ member, a PurePosixPath
\* ------------------------------------------------------------------------

\* PosixPath(const std::string&)
PosixPath(path) == [base_ |-> PurePosixPath(path)]

\* PosixPath(PurePosixPath)
PosixPath_pure(parts_) == [base_ |-> parts_]

\* The outcome of a PurePosixPath call converted to a PosixPath outcome; an
\* exception passes through
PosixPath_outcome(out) ==
    IF out.thrown THEN Throw ELSE Return(PosixPath_pure(out.parts))

PosixPath_string(self) == string(self.base_)

PosixPath_is_absolute(self) == is_absolute(self.base_)

PosixPath_name(self) == name(self.base_)

PosixPath_parts(self) == self.base_

PosixPath_root(self) == root(self.base_)

PosixPath_stem(self) == stem(self.base_)

PosixPath_suffix(self) == suffix(self.base_)

PosixPath_suffixes(self) == suffixes(self.base_)

PosixPath_eq(self, that) == eq(self.base_, that.base_)

PosixPath_ne(self, that) == ne(self.base_, that.base_)

PosixPath_lt(self, that) == lt(self.base_, that.base_)

\* joinpath(const std::string&)
PosixPath_joinpath(self, path) == PosixPath_pure(joinpath(self.base_, path))

\* joinpath(const PosixPath&)
PosixPath_joinpath_path(self, that) ==
    PosixPath_pure(joinpath(self.base_, string(that.base_)))

\* operator/(const std::string&)
PosixPath_div(self, path) == PosixPath_pure(div(self.base_, path))

\* operator/(const PosixPath&)
PosixPath_div_path(self, that) == PosixPath_pure(div(self.base_, string(that.base_)))

\* PosixPath::parent() forwarding to the object itself instead of its parent
PosixPath_parent_self(self) == PosixPath_pure(self.base_)

PosixPath_parent(self) == PosixPath_pure(parent(self.base_))

RECURSIVE PosixPath_each(_)
PosixPath_each(items) ==
    IF items = <<>> THEN <<>>
    ELSE <<PosixPath_pure(Head(items))>> \o PosixPath_each(Tail(items))

PosixPath_parents(self) == PosixPath_each(parents(self.base_))

PosixPath_relative_to(self, that) ==
    PosixPath_outcome(relative_to(self.base_, that.base_))

PosixPath_with_name(self, nm) == PosixPath_outcome(with_name(self.base_, nm))

PosixPath_with_suffix(self, sf) == PosixPath_outcome(with_suffix(self.base_, sf))

\* ------------------------------------------------------------------------
\* The filesystem and the system calls the module makes
\*
\* A filesystem is a function from nodes to entries.  A node is the sequence
\* of names leading to it from the root directory, the root is <<>> and is
\* always a directory.  Symbolic links and permissions are not modelled, and
\* the mode_t argument of mkdir is left out.
\* ------------------------------------------------------------------------

Directory == [kind |-> "dir", data |-> <<>>]

RegularFile(data) == [kind |-> "file", data |-> data]

\* The working directory of the process
cwd == <<>>

node_exists(fs_, node) == node = <<>> \/ node \in DOMAIN fs_

node_isdir(fs_, node) ==
    node = <<>> \/ (node \in DOMAIN fs_ /\ fs_[node].kind = "dir")

\* Names of the entries of a directory node
children(fs_, node) ==
    {n[Len(n)] : n \in {m \in DOMAIN fs_ : m # <<>> /\ pop_back(m) = node}}

\* Path resolution by the kernel, one component at a time: every component
\* is looked up in a directory that has to exist; the node of the last
\* component may be missing
RECURSIVE walk(_, _, _)
walk(fs_, comps, cur) ==
    IF comps = <<>> THEN [errno |-> "", node |-> cur]
    ELSE IF ~node_exists(fs_, cur) THEN [errno |-> "ENOENT", node |-> cur]
    ELSE IF ~node_isdir(fs_, cur) THEN [errno |-> "ENOTDIR", node |-> cur]
    ELSE LET comp == Head(comps)
         IN  IF comp = <<>> \/ comp = current THEN walk(fs_, Tail(comps), cur)
             ELSE IF comp = parentdir THEN walk(fs_, Tail(comps), pop_back(cur))
             ELSE walk(fs_, Tail(comps), Append(cur, comp))

lookup(fs_, path) ==
    IF path = <<>> THEN [errno |-> "ENOENT", node |-> <<>>]
    ELSE walk(fs_, str_split(path, sep), IF isabs(path) THEN <<>> ELSE cwd)

\* stat(2): errno and the kind of the entry
stat(fs_, path) ==
    LET found == lookup(fs_, path)
    IN  IF found.errno # "" THEN [errno |-> found.errno, kind |-> ""]
        ELSE IF ~node_exists(fs_, found.node) THEN [errno |-> "ENOENT", kind |-> ""]
        ELSE [errno |-> "",
              kind  |-> IF found.node = <<>> THEN "dir" ELSE fs_[found.node].kind]

\* mkdir(2): errno and the filesystem afterwards
sys_mkdir(fs_, path) ==
    LET found == lookup(fs_, path)
    IN  IF found.errno # "" THEN [errno |-> found.errno, fs |-> fs_]
        ELSE IF node_exists(fs_, found.node) THEN [errno |-> "EEXIST", fs |-> fs_]
        ELSE [errno |-> "", fs |-> (found.node :> Directory) @@ fs_]

\* std::fstream(path, flags): whether I/O on the stream can succeed, and the
\* filesystem afterwards.  trunc empties an existing regular file; out
\* creates a missing one in an existing directory.
fstream(fs_, path, out, trunc) ==
    LET found == lookup(fs_, path)
        node  == found.node
    IN  IF found.errno # "" \/ node = <<>> THEN [usable |-> FALSE, fs |-> fs_]
        ELSE IF node \in DOMAIN fs_
        THEN IF fs_[node].kind # "file" THEN [usable |-> FALSE, fs |-> fs_]
             ELSE IF trunc THEN [usable |-> TRUE, fs |-> [fs_ EXCEPT ![node] = RegularFile(<<>>)]]
             ELSE [usable |-> TRUE, fs |-> fs_]
        ELSE IF out THEN [usable |-> TRUE, fs |-> (node :> RegularFile(<<>>)) @@ fs_]
        ELSE [usable |-> FALSE, fs |-> fs_]

\* path::exists and path::isdir
exists(fs_, path) == stat(fs_, path).errno = ""

isdir(fs_, path) == stat(fs_, path).errno = "" /\ stat(fs_, path).kind = "dir"

\* The outcome of a call that may change the filesystem
Done(fs_) == [thrown |-> FALSE, fs |-> fs_]
Failed(fs_) == [thrown |-> TRUE, fs |-> fs_]

\* os::makedirs(path, mode, exist_ok)
RECURSIVE makedirs(_, _, _)
makedirs(fs_, path, exist_ok) ==
    IF ~isdir(fs_, path)
    THEN LET head  == dirname(path)
             upper == IF ~(head = <<>> \/ isdir(fs_, head))
                      THEN makedirs(fs_, head, FALSE)
                      ELSE Done(fs_)
             made  == sys_mkdir(upper.fs, path)
         IN  IF upper.thrown THEN upper
             ELSE IF made.errno # "" /\ made.errno \notin {"EEXIST", "EISDIR"}
             THEN Failed(upper.fs)
             ELSE Done(made.fs)
    ELSE IF ~exist_ok THEN Failed(fs_)
    ELSE Done(fs_)

PosixPath_exists(fs_, self) == exists(fs_, PosixPath_string(self))

PosixPath_is_dir(fs_, self) == isdir(fs_, PosixPath_string(self))

\* mkdir that leaves out the test of the parent directory
PosixPath_mkdir_unchecked(fs_, self, parents_, exist_ok) ==
    makedirs(fs_, PosixPath_string(self), exist_ok)

\* PosixPath::mkdir(mode, parents, exist_ok)
PosixPath_mkdir(fs_, self, parents_, exist_ok) ==
    IF ~parents_ /\ ~PosixPath_is_dir(fs_, PosixPath_parent(self)) THEN Failed(fs_)
    ELSE makedirs(fs_, PosixPath_string(self), exist_ok)

\* The file modes: the first character selects the flags; "t" stands for
\* every character that is not a mode
Modes == {<<"r">>, <<"w">>, <<"x">>, <<"a">>, <<"t">>}

\* open without the test for an existing path in mode 'x'
PosixPath_open_unchecked(fs_, self, mode) ==
    LET path == PosixPath_string(self)
    IN  IF mode[1] \notin {"r", "w", "x", "a"}
        THEN [thrown |-> TRUE, usable |-> FALSE, fs |-> fs_]
        ELSE LET stream == fstream(fs_, path, mode[1] # "r", mode[1] \in {"w", "x"})
             IN  [thrown |-> FALSE, usable |-> stream.usable, fs |-> stream.fs]

\* PosixPath::open(mode): thrown for std::invalid_argument, otherwise the
\* stream returned.  A default-constructed fstream is not usable.
PosixPath_open(fs_, self, mode) ==
    LET path == PosixPath_string(self)
    IN  IF mode[1] \notin {"r", "w", "x", "a"}
        THEN [thrown |-> TRUE, usable |-> FALSE, fs |-> fs_]
        ELSE IF mode[1] = "x" /\ PosixPath_exists(fs_, self)
        THEN [thrown |-> FALSE, usable |-> FALSE, fs |-> fs_]
        ELSE LET stream == fstream(fs_, path, mode[1] # "r", mode[1] \in {"w", "x"})
             IN  [thrown |-> FALSE, usable |-> stream.usable, fs |-> stream.fs]

\* The loop of iterdir() over the names readdir returns, in the order it
\* returns them
RECURSIVE iterdir_loop(_, _, _)
iterdir_loop(self, names, entries) ==
    IF names = <<>> THEN entries
    ELSE IF Head(names) \in {current, parentdir}
    THEN iterdir_loop(self, Tail(names), entries)
    ELSE iterdir_loop(self, Tail(names),
                      Append(entries, PosixPath_div_path(self, PosixPath(Head(names)))))

\* PosixPath::iterdir(): names is what readdir returns, "." and ".." included
PosixPath_iterdir(fs_, self, names) ==
    LET found == lookup(fs_, PosixPath_string(self))
    IN  IF found.errno # "" \/ ~node_isdir(fs_, found.node)
        THEN [thrown |-> TRUE, value |-> <<>>]
        ELSE [thrown |-> FALSE, value |-> iterdir_loop(self, names, <<>>)]

\* ------------------------------------------------------------------------
\* State
\* ------------------------------------------------------------------------

VARIABLES
    p,        \* parts_ of the path object the program holds
    res,      \* parts_ of the path returned by the last call (<<>> if it threw)
    other,    \* parts_ of the path argument of the last call
    arg,      \* text argument of the last call
    op,       \* the last operation
    thrown,   \* the last call threw std::invalid_argument
    cmp,      \* results of the comparison operators when op = "compare"
    text,     \* input of the free function under test
    normed,   \* output of the free function under test
    list,     \* list of parts handed to join
    pair,     \* pair returned by split or splitext
    loop_path,  \* parents(): the local variable path of the loop
    paths,      \* parents(): the vector built by the loop
    q,          \* the PosixPath object the program holds
    pure_out,   \* what the last call on the PurePosixPath p gave
    posix_out,  \* what the same call on the PosixPath q gave
    fs,         \* the filesystem
    fs0,        \* the filesystem before the last call
    flags,      \* arguments of the last filesystem call
    ret,        \* what the last filesystem call gave
    segs,       \* normpath(): the segments the loop has not visited yet
    level,      \* normpath(): the local variable level
    stack,      \* normpath(): the deque parts
    calls       \* the call stack of every caller of makedirs

\* Variables of the free-function machines, of the parents() loop and of the
\* PosixPath machine
funvars == <<text, normed, list, pair>>
loopvars == <<loop_path, paths>>
posixvars == <<q, pure_out, posix_out>>

\* Variables of the filesystem machines and of the normpath() loop
fsvars == <<fs, fs0, flags, ret>>
normvars == <<segs, level, stack>>

vars ==
    <<p, res, other, arg, op, thrown, cmp, funvars, loopvars, posixvars,
      fsvars, normvars, calls>>

\* Values of the variables a machine does not use
NoCmp == [eq |-> FALSE, ne |-> FALSE, lt |-> FALSE, gt |-> FALSE]
NoPair == [first |-> <<>>, second |-> <<>>]
NoFun == text = <<>> /\ normed = <<>> /\ list = <<>> /\ pair = NoPair
NoLoop == loop_path = <<>> /\ paths = <<>>
NoPosix == q = PosixPath_pure(<<>>) /\ pure_out = <<>> /\ posix_out = <<>>
EmptyFs == [node \in {} |-> Directory]
NoFlags == [parents |-> FALSE, exist_ok |-> FALSE, mode |-> <<>>]
NoRet == [thrown |-> FALSE, usable |-> FALSE, value |-> <<>>]
NoFs == fs = EmptyFs /\ fs0 = EmptyFs /\ flags = NoFlags /\ ret = NoRet
NoNormLoop == segs = <<>> /\ level = 0 /\ stack = <<>>
NoCalls == calls = <<>>
NoPath ==
    /\ p = <<>>
    /\ res = <<>>
    /\ other = <<>>
    /\ arg = <<>>
    /\ thrown = FALSE
    /\ cmp = NoCmp

\* ------------------------------------------------------------------------
\* The path state machine: a program holding one PurePosixPath p and
\* calling its public operations
\* ------------------------------------------------------------------------

\* Before the program constructs its path: p and res hold the value of the
\* default argument "."
Init ==
    /\ p = PurePosixPath(current)
    /\ res = PurePosixPath(current)
    /\ other = <<>>
    /\ arg = <<>>
    /\ op = "init"
    /\ thrown = FALSE
    /\ cmp = NoCmp
    /\ NoFun
    /\ NoLoop
    /\ NoPosix
    /\ NoFs
    /\ NoNormLoop
    /\ NoCalls

\* The outcome of a non-mutating call on p.  Paths whose rendering is longer
\* than MaxLen are outside the bounds of the model.
Outcome(name_, out) ==
    /\ out.thrown \/ Len(string(out.parts)) <= MaxLen
    /\ op' = name_
    /\ thrown' = out.thrown
    /\ res' = out.parts
    /\ cmp' = NoCmp
    /\ UNCHANGED <<p, funvars, loopvars, posixvars, fsvars, normvars, calls>>

\* Path values the program can pass as an argument: built from a text, or
\* the value returned by the previous call
Operands == {PurePosixPath(s) : s \in Texts(MaxArg)} \cup {res}

\* PurePosixPath p(s): the object is constructed once; afterwards only
\* operator/= and assignment change it
Construct ==
    \E s \in Texts(MaxLen) :
        /\ op = "init"
        /\ p' = PurePosixPath(s)
        /\ res' = PurePosixPath(s)
        /\ arg' = s
        /\ other' = <<>>
        /\ op' = "PurePosixPath"
        /\ thrown' = FALSE
        /\ cmp' = NoCmp
        /\ UNCHANGED <<funvars, loopvars, posixvars, fsvars, normvars, calls>>

\* p.joinpath(s)
Joinpath ==
    \E s \in Texts(MaxArg) :
        /\ arg' = s
        /\ other' = <<>>
        /\ Outcome("joinpath", Return(joinpath(p, s)))

\* p.joinpath(o)
JoinpathPath ==
    \E o \in Operands :
        /\ arg' = <<>>
        /\ other' = o
        /\ Outcome("joinpath_path", Return(joinpath(p, string(o))))

\* p / s
Div ==
    \E s \in Texts(MaxArg) :
        /\ arg' = s
        /\ other' = <<>>
        /\ Outcome("operator/", Return(div(p, s)))

\* p /= s
DivAssign ==
    \E s \in Texts(MaxArg) :
        /\ Len(string(joinpath(p, s))) <= MaxLen
        /\ p' = joinpath(p, s)
        /\ res' = joinpath(p, s)
        /\ arg' = s
        /\ other' = <<>>
        /\ op' = "operator/="
        /\ thrown' = FALSE
        /\ cmp' = NoCmp
        /\ UNCHANGED <<funvars, loopvars, posixvars, fsvars, normvars, calls>>

\* p.parent() popping the last segment of p itself instead of a copy
Parent_in_place ==
    /\ p' = parent(p)
    /\ res' = parent(p)
    /\ arg' = <<>>
    /\ other' = <<>>
    /\ op' = "parent"
    /\ thrown' = FALSE
    /\ cmp' = NoCmp
    /\ UNCHANGED <<funvars, loopvars, posixvars, fsvars, normvars, calls>>

\* p.parent()
Parent ==
    /\ arg' = <<>>
    /\ other' = <<>>
    /\ Outcome("parent", Return(parent(p)))

\* p.relative_to(o)
RelativeTo ==
    \E o \in Operands :
        /\ arg' = <<>>
        /\ other' = o
        /\ Outcome("relative_to", relative_to(p, o))

\* p.with_name(s)
WithName ==
    \E s \in Texts(MaxArg) :
        /\ arg' = s
        /\ other' = <<>>
        /\ Outcome("with_name", with_name(p, s))

\* p.with_suffix(s)
WithSuffix ==
    \E s \in Texts(MaxArg) :
        /\ arg' = s
        /\ other' = <<>>
        /\ Outcome("with_suffix", with_suffix(p, s))

\* p = r, for r the value the last call returned (copy assignment)
Assign ==
    /\ ~thrown
    /\ p # res
    /\ p' = res
    /\ arg' = <<>>
    /\ other' = <<>>
    /\ op' = "assign"
    /\ cmp' = NoCmp
    /\ UNCHANGED <<res, thrown, funvars, loopvars, posixvars, fsvars, normvars, calls>>

\* p == r, p != r, p < r and r < p for r the value the last call returned
Compare ==
    /\ ~thrown
    /\ op # "compare"
    /\ cmp' = [eq |-> eq(p, res), ne |-> ne(p, res), lt |-> lt(p, res), gt |-> lt(res, p)]
    /\ other' = res
    /\ arg' = <<>>
    /\ op' = "compare"
    /\ UNCHANGED <<p, res, thrown, funvars, loopvars, posixvars, fsvars, normvars, calls>>

Next ==
    \/ Construct
    \/ Joinpath
    \/ JoinpathPath
    \/ Div
    \/ DivAssign
    \/ Parent
    \/ RelativeTo
    \/ WithName
    \/ WithSuffix
    \/ Assign
    \/ Compare

Spec == Init /\ [][Next]_vars

\* ------------------------------------------------------------------------
\* The free-function state machine: a program normalizing a text and
\* normalizing the result again
\* ------------------------------------------------------------------------

InitNorm ==
    /\ text \in Texts(MaxText)
    /\ normed = <<>>
    /\ list = <<>>
    /\ pair = NoPair
    /\ op = "init"
    /\ NoPath
    /\ NoLoop
    /\ NoPosix
    /\ NoFs
    /\ NoNormLoop
    /\ NoCalls

\* normed = normpath(text)
Normpath ==
    /\ op \in {"init", "fed"}
    /\ normed' = normpath(text)
    /\ op' = IF op = "fed" THEN "renormpath" ELSE "normpath"
    /\ UNCHANGED <<text, list, pair, p, res, other, arg, thrown, cmp, loopvars, posixvars, fsvars, normvars, calls>>

\* text = normed: the result becomes the next input
Feed ==
    /\ op = "normpath"
    /\ text' = normed
    /\ op' = "fed"
    /\ UNCHANGED <<normed, list, pair, p, res, other, arg, thrown, cmp, loopvars, posixvars, fsvars, normvars, calls>>

NextNorm ==
    \/ Normpath
    \/ Feed

SpecNorm == InitNorm /\ [][NextNorm]_vars

\* ------------------------------------------------------------------------
\* The join machine: a program joining a list of parts
\* ------------------------------------------------------------------------

\* The lists of parts: every list is written as one text with a mark between
\* consecutive parts, and the empty list is added
Marked(n) == UNION {[1..k -> Chars \cup {"|"}] : k \in 0..n}

PartLists(n) == {str_split(m, <<"|">>) : m \in Marked(n)} \cup {<<>>}

InitJoin ==
    /\ list \in PartLists(MaxJoin)
    /\ text = <<>>
    /\ normed = <<>>
    /\ pair = NoPair
    /\ op = "init"
    /\ NoPath
    /\ NoLoop
    /\ NoPosix
    /\ NoFs
    /\ NoNormLoop
    /\ NoCalls

\* normed = join(list)
Join ==
    /\ op = "init"
    /\ normed' = join(list)
    /\ op' = "join"
    /\ UNCHANGED <<text, list, pair, p, res, other, arg, thrown, cmp, loopvars, posixvars, fsvars, normvars, calls>>

NextJoin == Join

SpecJoin == InitJoin /\ [][NextJoin]_vars

\* ------------------------------------------------------------------------
\* The split machine: a program taking a text apart and joining the two
\* components again
\* ------------------------------------------------------------------------

InitSplit ==
    /\ text \in Texts(MaxText)
    /\ normed = <<>>
    /\ list = <<>>
    /\ pair = NoPair
    /\ op = "init"
    /\ NoPath
    /\ NoLoop
    /\ NoPosix
    /\ NoFs
    /\ NoNormLoop
    /\ NoCalls

\* pair = split(text)
Split ==
    /\ op = "init"
    /\ pair' = split(text)
    /\ op' = "split"
    /\ UNCHANGED <<text, normed, list, p, res, other, arg, thrown, cmp, loopvars, posixvars, fsvars, normvars, calls>>

\* normed = join({pair.first, pair.second})
JoinSplit ==
    /\ op = "split"
    /\ list' = <<pair.first, pair.second>>
    /\ normed' = join(<<pair.first, pair.second>>)
    /\ op' = "join_split"
    /\ UNCHANGED <<text, pair, p, res, other, arg, thrown, cmp, loopvars, posixvars, fsvars, normvars, calls>>

\* normed = dirname(text)
Dirname ==
    /\ op = "split"
    /\ normed' = dirname(text)
    /\ op' = "dirname"
    /\ UNCHANGED <<text, list, pair, p, res, other, arg, thrown, cmp, loopvars, posixvars, fsvars, normvars, calls>>

\* normed = basename(text)
Basename ==
    /\ op = "split"
    /\ normed' = basename(text)
    /\ op' = "basename"
    /\ UNCHANGED <<text, list, pair, p, res, other, arg, thrown, cmp, loopvars, posixvars, fsvars, normvars, calls>>

\* pair = splitext(text)
Splitext ==
    /\ op = "init"
    /\ pair' = [first |-> splitext(text).root, second |-> splitext(text).ext]
    /\ op' = "splitext"
    /\ UNCHANGED <<text, normed, list, p, res, other, arg, thrown, cmp, loopvars, posixvars, fsvars, normvars, calls>>

NextSplit ==
    \/ Split
    \/ JoinSplit
    \/ Dirname
    \/ Basename
    \/ Splitext

SpecSplit == InitSplit /\ [][NextSplit]_vars

\* ------------------------------------------------------------------------
\* The parents() machine: the loop of PurePosixPath::parents(), one
\* iteration per step, on a path constructed from a text
\* ------------------------------------------------------------------------

InitParents ==
    /\ p \in {PurePosixPath(s) : s \in Texts(MaxText)}
    /\ res = <<>>
    /\ other = <<>>
    /\ arg = <<>>
    /\ thrown = FALSE
    /\ cmp = NoCmp
    /\ op = "PurePosixPath"
    /\ NoLoop
    /\ NoFun
    /\ NoPosix
    /\ NoFs
    /\ NoNormLoop
    /\ NoCalls

\* vector<PurePosixPath> paths; PurePosixPath path(*this);
ParentsEnter ==
    /\ op = "PurePosixPath"
    /\ loop_path' = p
    /\ paths' = <<>>
    /\ op' = "parents_loop"
    /\ UNCHANGED <<p, res, other, arg, thrown, cmp, funvars, posixvars, fsvars, normvars, calls>>

\* One iteration that puts the new path at the front of the vector
ParentsStep_at_front ==
    /\ op = "parents_loop"
    /\ ~is_root(loop_path)
    /\ loop_path' = parent(loop_path)
    /\ paths' = <<parent(loop_path)>> \o paths
    /\ UNCHANGED <<p, res, other, arg, op, thrown, cmp, funvars, posixvars, fsvars, normvars, calls>>

\* One iteration: path = path.parent(); paths.emplace_back(path);
ParentsStep ==
    /\ op = "parents_loop"
    /\ ~is_root(loop_path)
    /\ loop_path' = parent(loop_path)
    /\ paths' = Append(paths, parent(loop_path))
    /\ UNCHANGED <<p, res, other, arg, op, thrown, cmp, funvars, posixvars, fsvars, normvars, calls>>

\* The loop condition fails: return paths;
ParentsReturn ==
    /\ op = "parents_loop"
    /\ is_root(loop_path)
    /\ op' = "parents"
    /\ UNCHANGED <<p, res, other, arg, thrown, cmp, loopvars, funvars, posixvars, fsvars, normvars, calls>>

NextParents ==
    \/ ParentsEnter
    \/ ParentsStep
    \/ ParentsReturn

\* A call that has started keeps running: the thread executing parents() is
\* scheduled until it returns
SpecParents == InitParents /\ [][NextParents]_vars /\ WF_vars(NextParents)

\* ------------------------------------------------------------------------
\* The PosixPath machine: a program constructing a PosixPath q and a
\* PurePosixPath p from the same text and making the same call on both
\* ------------------------------------------------------------------------

InitPosix ==
    /\ op = "init"
    /\ NoPath
    /\ NoFun
    /\ NoLoop
    /\ NoPosix
    /\ NoFs
    /\ NoNormLoop
    /\ NoCalls

\* PosixPath q(s); PurePosixPath p(s);
PosixConstruct ==
    \E s \in Texts(MaxLen) :
        /\ op = "init"
        /\ q' = PosixPath(s)
        /\ p' = PurePosixPath(s)
        /\ arg' = s
        /\ op' = "PosixPath"
        /\ UNCHANGED <<res, other, thrown, cmp, pure_out, posix_out, funvars, loopvars, fsvars, normvars, calls>>

\* The same call made on the freshly constructed p and q: a is the text
\* argument, o the text the path argument is constructed from
Call(name_, a, o, pure, posix) ==
    /\ op = "PosixPath"
    /\ op' = name_
    /\ arg' = a
    /\ other' = o
    /\ pure_out' = pure
    /\ posix_out' = posix
    /\ UNCHANGED <<p, q, res, thrown, cmp, funvars, loopvars, fsvars, normvars, calls>>

PosixString == Call("string", <<>>, <<>>, string(p), PosixPath_string(q))

PosixIsAbsolute == Call("is_absolute", <<>>, <<>>, is_absolute(p), PosixPath_is_absolute(q))

PosixName == Call("name", <<>>, <<>>, name(p), PosixPath_name(q))

PosixParts == Call("parts", <<>>, <<>>, p, PosixPath_parts(q))

PosixRoot == Call("root", <<>>, <<>>, root(p), PosixPath_root(q))

PosixStem == Call("stem", <<>>, <<>>, stem(p), PosixPath_stem(q))

PosixSuffix == Call("suffix", <<>>, <<>>, suffix(p), PosixPath_suffix(q))

PosixSuffixes == Call("suffixes", <<>>, <<>>, suffixes(p), PosixPath_suffixes(q))

PosixEq ==
    \E t \in Texts(MaxArg) :
        Call("operator==", <<>>, t, eq(p, PurePosixPath(t)), PosixPath_eq(q, PosixPath(t)))

PosixNe ==
    \E t \in Texts(MaxArg) :
        Call("operator!=", <<>>, t, ne(p, PurePosixPath(t)), PosixPath_ne(q, PosixPath(t)))

PosixLt ==
    \E t \in Texts(MaxArg) :
        Call("operator<", <<>>, t, lt(p, PurePosixPath(t)), PosixPath_lt(q, PosixPath(t)))

PosixJoinpath ==
    \E s \in Texts(MaxArg) :
        Call("joinpath", s, <<>>, joinpath(p, s), PosixPath_joinpath(q, s))

PosixJoinpathPath ==
    \E t \in Texts(MaxArg) :
        Call("joinpath_path", <<>>, t, joinpath(p, string(PurePosixPath(t))),
             PosixPath_joinpath_path(q, PosixPath(t)))

PosixDiv ==
    \E s \in Texts(MaxArg) :
        Call("operator/", s, <<>>, div(p, s), PosixPath_div(q, s))

PosixDivPath ==
    \E t \in Texts(MaxArg) :
        Call("operator/_path", <<>>, t, div(p, string(PurePosixPath(t))),
             PosixPath_div_path(q, PosixPath(t)))

PosixParent == Call("parent", <<>>, <<>>, parent(p), PosixPath_parent(q))

PosixParents == Call("parents", <<>>, <<>>, parents(p), PosixPath_parents(q))

PosixRelativeTo ==
    \E t \in Texts(MaxArg) :
        Call("relative_to", <<>>, t, relative_to(p, PurePosixPath(t)),
             PosixPath_relative_to(q, PosixPath(t)))

PosixWithName ==
    \E s \in Texts(MaxArg) :
        Call("with_name", s, <<>>, with_name(p, s), PosixPath_with_name(q, s))

PosixWithSuffix ==
    \E s \in Texts(MaxArg) :
        Call("with_suffix", s, <<>>, with_suffix(p, s), PosixPath_with_suffix(q, s))

NextPosix ==
    \/ PosixConstruct
    \/ PosixString
    \/ PosixIsAbsolute
    \/ PosixName
    \/ PosixParts
    \/ PosixRoot
    \/ PosixStem
    \/ PosixSuffix
    \/ PosixSuffixes
    \/ PosixEq
    \/ PosixNe
    \/ PosixLt
    \/ PosixJoinpath
    \/ PosixJoinpathPath
    \/ PosixDiv
    \/ PosixDivPath
    \/ PosixParent
    \/ PosixParents
    \/ PosixRelativeTo
    \/ PosixWithName
    \/ PosixWithSuffix

SpecPosix == InitPosix /\ [][NextPosix]_vars

\* ------------------------------------------------------------------------
\* The filesystem machine: other programs fill the filesystem, then the
\* program constructs a PosixPath q and makes one filesystem call on it
\* ------------------------------------------------------------------------

\* Names of the entries other programs create
Names == {<<"a">>, <<"a", "a">>}

\* The sequences that list every element of S once
Orders(S) ==
    {o \in [1..Cardinality(S) -> S] : \A i, j \in 1..Cardinality(S) : o[i] = o[j] => i = j}

InitFs ==
    /\ op = "init"
    /\ NoPath
    /\ NoFun
    /\ NoLoop
    /\ NoPosix
    /\ NoFs
    /\ NoNormLoop
    /\ NoCalls

\* Another program creates a directory or a non-empty regular file
EnvCreate ==
    \E dir \in {n \in DOMAIN fs \cup {<<>>} : node_isdir(fs, n)} :
        \E nm \in Names :
            \E entry \in {Directory, RegularFile(<<"a">>)} :
                /\ op = "init"
                /\ Cardinality(DOMAIN fs) < MaxEntries
                /\ Append(dir, nm) \notin DOMAIN fs
                /\ fs' = (Append(dir, nm) :> entry) @@ fs
                /\ fs0' = fs'
                /\ UNCHANGED <<p, res, other, arg, op, thrown, cmp, funvars, loopvars,
                               posixvars, flags, ret, normvars, calls>>

\* PosixPath q(s);
FsConstruct ==
    \E s \in Texts(MaxLen) :
        /\ op = "init"
        /\ q' = PosixPath(s)
        /\ arg' = s
        /\ op' = "PosixPath"
        /\ UNCHANGED <<p, res, other, thrown, cmp, pure_out, posix_out, funvars,
                       loopvars, fsvars, normvars, calls>>

\* A filesystem call on the freshly constructed q
FsCall(name_, fl, out) ==
    /\ op = "PosixPath"
    /\ op' = name_
    /\ flags' = fl
    /\ fs0' = fs
    /\ fs' = out.fs
    /\ ret' = [thrown |-> out.thrown, usable |-> out.usable, value |-> out.value]
    /\ UNCHANGED <<p, res, other, arg, thrown, cmp, funvars, loopvars, posixvars,
                   normvars, calls>>

\* q.mkdir(mode, parents, exist_ok)
Mkdir ==
    \E parents_ \in BOOLEAN, exist_ok \in BOOLEAN :
        LET out == PosixPath_mkdir(fs, q, parents_, exist_ok)
        IN  FsCall("mkdir",
                   [parents |-> parents_, exist_ok |-> exist_ok, mode |-> <<>>],
                   [thrown |-> out.thrown, usable |-> FALSE, value |-> <<>>, fs |-> out.fs])

\* q.open(mode)
Open ==
    \E mode \in Modes :
        LET out == PosixPath_open(fs, q, mode)
        IN  FsCall("open",
                   [parents |-> FALSE, exist_ok |-> FALSE, mode |-> mode],
                   [thrown |-> out.thrown, usable |-> out.usable, value |-> <<>>, fs |-> out.fs])

\* q.iterdir(): readdir returns the entries of the directory, "." and ".."
\* among them, in any order
Iterdir ==
    LET found == lookup(fs, PosixPath_string(q))
        names == IF found.errno = "" /\ node_isdir(fs, found.node)
                 THEN children(fs, found.node) \cup {current, parentdir}
                 ELSE {}
    IN  \E order \in Orders(names) :
            LET out == PosixPath_iterdir(fs, q, order)
            IN  FsCall("iterdir", NoFlags,
                       [thrown |-> out.thrown, usable |-> FALSE, value |-> out.value, fs |-> fs])

NextFs ==
    \/ EnvCreate
    \/ FsConstruct
    \/ Mkdir
    \/ Open
    \/ Iterdir

SpecFs == InitFs /\ [][NextFs]_vars

\* ------------------------------------------------------------------------
\* The normpath() machine: the loop of path::normpath, one item of
\* str::split(path, sep) per step, with its level counter and its deque
\* ------------------------------------------------------------------------

InitNormLoop ==
    /\ text \in Texts(MaxText)
    /\ normed = <<>>
    /\ list = <<>>
    /\ pair = NoPair
    /\ op = "init"
    /\ NoPath
    /\ NoLoop
    /\ NoPosix
    /\ NoFs
    /\ NoNormLoop
    /\ NoCalls

\* What pop_back() on an empty deque may leave behind: the behaviour is
\* undefined, the deque may hold anything afterwards
Undefined == {<<>>, <<parentdir>>, <<<<"a">>>>, <<<<"a">>, parentdir>>}

\* ssize_t level(0); deque<string> parts; the range of the for statement
NormEnter ==
    /\ op = "init"
    /\ segs' = str_split(text, sep)
    /\ level' = 0
    /\ stack' = <<>>
    /\ op' = "normpath_loop"
    /\ UNCHANGED <<p, res, other, arg, thrown, cmp, funvars, loopvars, posixvars, fsvars, calls>>

\* One iteration in which a skipped item counts as a level too
NormStep_counting_skipped ==
    /\ op = "normpath_loop"
    /\ segs # <<>>
    /\ LET item == Head(segs)
       IN  /\ segs' = Tail(segs)
           /\ IF item = <<>> \/ item = current
              THEN level' = level + 1 /\ stack' = stack
              ELSE IF item = parentdir
              THEN /\ level' = level - 1
                   /\ IF level - 1 >= 0
                      THEN IF stack = <<>>
                           THEN stack' \in Undefined
                           ELSE stack' = pop_back(stack)
                      ELSE IF ~isabs(text)
                      THEN stack' = push_back(stack, parentdir)
                      ELSE stack' = stack
              ELSE /\ level' = level + 1
                   /\ stack' = push_back(stack, item)
    /\ UNCHANGED <<p, res, other, arg, op, thrown, cmp, funvars, loopvars, posixvars, fsvars, calls>>

\* One iteration of the for statement on the next item
NormStep ==
    /\ op = "normpath_loop"
    /\ segs # <<>>
    /\ LET item == Head(segs)
       IN  /\ segs' = Tail(segs)
           /\ IF item = <<>> \/ item = current
              THEN level' = level /\ stack' = stack
              ELSE IF item = parentdir
              THEN /\ level' = level - 1
                   /\ IF level - 1 >= 0
                      THEN IF stack = <<>>
                           THEN stack' \in Undefined
                           ELSE stack' = pop_back(stack)
                      ELSE IF ~isabs(text)
                      THEN stack' = push_back(stack, parentdir)
                      ELSE stack' = stack
              ELSE /\ level' = level + 1
                   /\ stack' = push_back(stack, item)
    /\ UNCHANGED <<p, res, other, arg, op, thrown, cmp, funvars, loopvars, posixvars, fsvars, calls>>

\* The range is exhausted: normed is built from the deque and returned
NormReturn ==
    /\ op = "normpath_loop"
    /\ segs = <<>>
    /\ normed' = normpath_result(text, stack)
    /\ op' = "normpath"
    /\ UNCHANGED <<text, list, pair, p, res, other, arg, thrown, cmp, loopvars, posixvars, fsvars, normvars, calls>>

NextNormLoop ==
    \/ NormEnter
    \/ NormStep
    \/ NormReturn

SpecNormLoop == InitNormLoop /\ [][NextNormLoop]_vars

\* ------------------------------------------------------------------------
\* The name machine: stem(), suffix() and suffixes() called on a path
\* constructed from a text
\* ------------------------------------------------------------------------

InitName ==
    /\ p \in {PurePosixPath(s) : s \in Texts(MaxText)}
    /\ res = <<>>
    /\ other = <<>>
    /\ arg = <<>>
    /\ thrown = FALSE
    /\ cmp = NoCmp
    /\ op = "PurePosixPath"
    /\ NoLoop
    /\ NoFun
    /\ NoPosix
    /\ NoFs
    /\ NoNormLoop
    /\ NoCalls

\* normed = p.stem()
Stem ==
    /\ normed' = stem(p)
    /\ list' = <<>>
    /\ op' = "stem"
    /\ UNCHANGED <<text, pair, p, res, other, arg, thrown, cmp, loopvars, posixvars, fsvars, normvars, calls>>

\* normed = p.suffix()
Suffix ==
    /\ normed' = suffix(p)
    /\ list' = <<>>
    /\ op' = "suffix"
    /\ UNCHANGED <<text, pair, p, res, other, arg, thrown, cmp, loopvars, posixvars, fsvars, normvars, calls>>

\* list = p.suffixes()
Suffixes ==
    /\ list' = suffixes(p)
    /\ normed' = <<>>
    /\ op' = "suffixes"
    /\ UNCHANGED <<text, pair, p, res, other, arg, thrown, cmp, loopvars, posixvars, fsvars, normvars, calls>>

NextName ==
    \/ Stem
    \/ Suffix
    \/ Suffixes

SpecName == InitName /\ [][NextName]_vars

\* ------------------------------------------------------------------------
\* The makedirs() machine: two callers of PosixPath::mkdir(mode, true,
\* exist_ok) on one filesystem.  A step is one system call of os::makedirs
\* together with the statements up to the next one; calls[c] holds the
\* frames of the recursion of caller c, the innermost last.
\* ------------------------------------------------------------------------

Callers == {1, 2}

\* The trees the callers may find: nothing, or a directory "a"
Trees == {EmptyFs, <<<<"a">>>> :> Directory}

Idle(path, exist_ok) ==
    [path |-> path, exist_ok |-> exist_ok, frames |-> <<>>, status |-> "idle"]

Frame(path, exist_ok, pc) == [path |-> path, exist_ok |-> exist_ok, pc |-> pc]

InitMakedirs ==
    /\ fs \in Trees
    /\ fs0 = fs
    /\ flags = NoFlags
    /\ ret = NoRet
    /\ calls \in [Callers -> {Idle(PosixPath_string(PosixPath(s)), exist_ok) :
                                  s \in Texts(MaxLen), exist_ok \in BOOLEAN}]
    /\ op = "init"
    /\ NoPath
    /\ NoFun
    /\ NoLoop
    /\ NoPosix
    /\ NoNormLoop

Top(c) == calls[c].frames[Len(calls[c].frames)]

Running(c, pc) == calls[c].status = "running" /\ Top(c).pc = pc

\* The innermost frame continues at pc
Goto(c, pc) ==
    [calls EXCEPT ![c].frames[Len(calls[c].frames)].pc = pc]

\* return: the innermost frame is left; the call of the caller is over when
\* it was the only one
ReturnFrom(c) ==
    LET rest == pop_back(calls[c].frames)
    IN  [calls EXCEPT ![c].frames = rest,
                      ![c].status = IF rest = <<>> THEN "returned" ELSE "running"]

\* throw: no frame catches the exception
ThrowFrom(c) ==
    [calls EXCEPT ![c].frames = <<>>, ![c].status = "thrown"]

\* PosixPath::mkdir with parents = true: makedirs(string(*this), mode,
\* exist_ok) is entered
MkdirCall(c) ==
    /\ calls[c].status = "idle"
    /\ calls' = [calls EXCEPT ![c].frames = <<Frame(calls[c].path, calls[c].exist_ok, "isdir")>>,
                              ![c].status = "running"]
    /\ op' = "mkdir"
    /\ UNCHANGED <<p, res, other, arg, thrown, cmp, funvars, loopvars, posixvars, fsvars, normvars>>

\* if (not path::isdir(path)) ... else if (not exist_ok) throw ...; return;
MakedirsIsdir(c) ==
    /\ Running(c, "isdir")
    /\ calls' = IF ~isdir(fs, Top(c).path) THEN Goto(c, "root")
                ELSE IF ~Top(c).exist_ok THEN ThrowFrom(c)
                ELSE ReturnFrom(c)
    /\ op' = "makedirs"
    /\ UNCHANGED <<p, res, other, arg, thrown, cmp, funvars, loopvars, posixvars, fsvars, normvars>>

\* root = dirname(path); if (not (root.empty() or path::isdir(root)))
\* makedirs(root, mode, false);
MakedirsRoot(c) ==
    /\ Running(c, "root")
    /\ LET head == dirname(Top(c).path)
       IN  calls' = IF ~(head = <<>> \/ isdir(fs, head))
                    THEN [calls EXCEPT ![c].frames =
                              Append(Goto(c, "mkdir")[c].frames, Frame(head, FALSE, "isdir"))]
                    ELSE Goto(c, "mkdir")
    /\ op' = "makedirs"
    /\ UNCHANGED <<p, res, other, arg, thrown, cmp, funvars, loopvars, posixvars, fsvars, normvars>>

\* if (mkdir(path.c_str(), mode) != 0) { if (not (errno == EEXIST or
\* errno == EISDIR)) throw ...; } return;
MakedirsMkdir(c) ==
    /\ Running(c, "mkdir")
    /\ LET made == sys_mkdir(fs, Top(c).path)
       IN  /\ fs' = made.fs
           /\ calls' = IF made.errno # "" /\ made.errno \notin {"EEXIST", "EISDIR"}
                       THEN ThrowFrom(c)
                       ELSE ReturnFrom(c)
    /\ op' = "makedirs"
    /\ UNCHANGED <<p, res, other, arg, thrown, cmp, funvars, loopvars, posixvars, fs0, flags, ret, normvars>>

NextMakedirs ==
    \/ \E c \in Callers : MkdirCall(c)
    \/ \E c \in Callers : MakedirsIsdir(c)
    \/ \E c \in Callers : MakedirsRoot(c)
    \/ \E c \in Callers : MakedirsMkdir(c)

SpecMakedirs == InitMakedirs /\ [][NextMakedirs]_vars

\* ------------------------------------------------------------------------
\* Properties
\* ------------------------------------------------------------------------

\* The path values of a state
Paths == {p, res}

IsPrefix(a, b) == Len(a) <= Len(b) /\ SubSeq(b, 1, Len(a)) = a

HasSep(str) == \E i \in 1..Len(str) : str[i] = "/"

OnlyDots(str) == \A i \in 1..Len(str) : str[i] = "."

\* C1: normalization is idempotent: normalizing the result of normpath
\* returns it unchanged.
C1_NormpathIdempotent == op = "renormpath" => normed = text

C1_Witness == op = "renormpath" /\ normed = <<".", ".", "/", "a">>

\* C2: no element of parts() is the empty string or ".", and the separator
\* sentinel "/" occurs only at index 0, for every constructed path and every
\* path returned by the lexical operations.
C2_SegmentInvariant ==
    \A path \in Paths : \A i \in 1..Len(path) :
        /\ path[i] # <<>>
        /\ path[i] # current
        /\ path[i] = sep => i = 1

\* C3: an absolute path never retains a ".." segment, whether constructed
\* from a text that starts with the separator or returned by an operation.
C3_AbsoluteNoDotDot ==
    /\ op = "PurePosixPath" /\ isabs(arg) => \A i \in 1..Len(p) : p[i] # parentdir
    /\ \A path \in Paths :
           is_absolute(path) => \A i \in 1..Len(path) : path[i] # parentdir

\* C4: string(PurePosixPath(s)) == normpath(s) for every text s, and two
\* texts with the same normpath construct equal paths.
C4_StringIsNormpath ==
    op = "PurePosixPath" =>
        /\ string(p) = normpath(arg)
        /\ \A t \in Texts(MaxLen) :
               normpath(t) = normpath(arg) => PurePosixPath(t) = p

\* C5: rendering round-trips: PurePosixPath(string(x)) == x for every path
\* value x obtained through the public API.
C5_RenderRoundTrip == \A path \in Paths : PurePosixPath(string(path)) = path

\* C6: relative_to is inverted by joinpath: if other.parts() is a prefix of
\* p.parts() then other.joinpath(p.relative_to(other)) == p.
C6_RelativeToInverse ==
    op = "relative_to" /\ IsPrefix(other, p) =>
        /\ ~thrown
        /\ joinpath(other, string(res)) = p

\* C7: p.relative_to(other) throws exactly when other.parts() is not a
\* prefix of p.parts() and leaves p unchanged; otherwise it returns the
\* segments of p beyond the prefix, so p.relative_to(p) is the relative root
\* and p.relative_to(PurePosixPath("")) == p.
C7_RelativeToPrefix ==
    /\ [](op = "relative_to" =>
            /\ thrown <=> ~IsPrefix(other, p)
            /\ ~thrown => res = SubSeq(p, Len(other) + 1, Len(p))
            /\ other = p => ~thrown /\ res = PurePosixPath(<<>>)
            /\ other = PurePosixPath(<<>>) => ~thrown /\ res = p)
    /\ [][op' = "relative_to" => p' = p]_vars

C7_Witness ==
    /\ op = "relative_to"
    /\ ~thrown
    /\ other # <<>>
    /\ Len(other) < Len(p)

\* C8: for every path p with a non-empty name, p.with_suffix(p.suffix())
\* does not fail and equals p.
C8_SuffixRecomposition ==
    op = "with_suffix" /\ name(p) # <<>> /\ arg = suffix(p) =>
        /\ ~thrown
        /\ res = p

\* C9: p.with_name(n) throws iff n is empty, contains the separator, consists
\* only of dots, or p has an empty name; otherwise the result has name() == n
\* and the parent of p.
C9_WithNameValidation ==
    op = "with_name" =>
        /\ thrown <=> (arg = <<>> \/ HasSep(arg) \/ OnlyDots(arg) \/ name(p) = <<>>)
        /\ ~thrown => name(res) = arg /\ parent(res) = parent(p)

\* The texts with_suffix accepts: empty, or "." followed by one or more
\* non-separator characters
SuffixForm(str) ==
    \/ str = <<>>
    \/ Len(str) >= 2 /\ str[1] = "." /\ ~HasSep(str)

\* The outcome the state records for the last call
LastOutcome == [thrown |-> thrown, parts |-> res]

\* C10 (as claimed): for an s of the accepted form p.with_suffix(s) has the
\* outcome of p.with_name(p.stem() + s); for every other s, and for every p
\* with an empty name, with_suffix throws.
C10_WithSuffixIsWithName ==
    op = "with_suffix" =>
        /\ SuffixForm(arg) => LastOutcome = with_name(p, stem(p) \o arg)
        /\ ~SuffixForm(arg) \/ name(p) = <<>> => thrown

\* C10 (amended): with_suffix throws exactly when s is not of the accepted
\* form or p has an empty name; otherwise it returns parent() / (stem() + s)
\* without with_name's validation of the new name, so that it has the
\* outcome of with_name(stem() + s) whenever with_name accepts stem() + s.
C10_WithSuffixJoinsStem ==
    op = "with_suffix" =>
        /\ thrown <=> (~SuffixForm(arg) \/ name(p) = <<>>)
        /\ ~thrown => res = div(parent(p), stem(p) \o arg)
        /\ SuffixForm(arg) /\ valid_name(stem(p) \o arg) =>
               LastOutcome = with_name(p, stem(p) \o arg)

C10_Witness ==
    /\ op = "with_suffix"
    /\ ~thrown
    /\ name(p) = <<".", "a">>
    /\ arg = <<>>
    /\ res = p
    /\ with_name(p, stem(p) \o arg).thrown

\* The fold as claimed: a separator goes before every appended part whose
\* accumulated text does not end in one
RECURSIVE FoldClaimed(_, _, _)
FoldClaimed(parts, i, acc) ==
    IF i > Len(parts) THEN acc
    ELSE IF startswith(parts[i], sep) THEN FoldClaimed(parts, i + 1, parts[i])
    ELSE IF ~endswith(acc, sep) THEN FoldClaimed(parts, i + 1, acc \o sep \o parts[i])
    ELSE FoldClaimed(parts, i + 1, acc \o parts[i])

\* The fold with no separator before the first part
RECURSIVE FoldAfterFirst(_, _, _)
FoldAfterFirst(parts, i, acc) ==
    IF i > Len(parts) THEN acc
    ELSE IF startswith(parts[i], sep) THEN FoldAfterFirst(parts, i + 1, parts[i])
    ELSE IF i > 1 /\ ~endswith(acc, sep)
         THEN FoldAfterFirst(parts, i + 1, acc \o sep \o parts[i])
    ELSE FoldAfterFirst(parts, i + 1, acc \o parts[i])

\* C11 (as claimed): join(parts) is the left fold from the empty text that
\* replaces the accumulated text by a part starting with the separator and
\* otherwise appends the part, with one separator first iff the accumulated
\* text does not end in a separator.
C11_JoinIsFold == op = "join" => normed = FoldClaimed(list, 1, <<>>)

\* C11 (amended): the same fold, but the separator is inserted iff the part
\* is not the first of the list and the accumulated text does not end in a
\* separator; separators inside a part are kept as they are.
C11_JoinIsFoldAfterFirst == op = "join" => normed = FoldAfterFirst(list, 1, <<>>)

C11_Witness ==
    /\ op = "join"
    /\ list = <<<<"a", "/", "/">>, <<"a">>, <<>>>>
    /\ normed = <<"a", "/", "/", "a", "/">>

C13_SplitJoinEquivalent ==
    op = "join_split" =>
        /\ normpath(normed) = normpath(text)
        /\ isabs(normed) = isabs(text)

\* Position of the last occurrence of the character c in str, 0 if none
LastOf(str, c) == Max({i \in 1..Len(str) : str[i] = c} \cup {0})

\* C14: splitext(p) = (root, ext) satisfies root + ext == p; ext is empty
\* exactly when p has no '.' or its last '.' is at index 0; otherwise ext
\* starts at the last '.' of the whole text, so it is non-empty, begins with
\* '.' and contains no other '.'.
C14_SplitextLastDot ==
    op = "splitext" =>
        /\ pair.first \o pair.second = text
        /\ pair.second = <<>> <=> LastOf(text, ".") \in {0, 1}
        /\ pair.second # <<>> =>
               /\ Len(pair.first) = LastOf(text, ".") - 1
               /\ pair.second[1] = "."
               /\ \A i \in 2..Len(pair.second) : pair.second[i] # "."

C14_Witness ==
    /\ op = "splitext"
    /\ text = <<"a", ".", "/", "a">>
    /\ pair = [first |-> <<"a">>, second |-> <<".", "/", "a">>]

\* str without the separators at its end
RECURSIVE WithoutTrailingSeps(_)
WithoutTrailingSeps(str) ==
    IF str # <<>> /\ str[Len(str)] = "/"
    THEN WithoutTrailingSeps(SubSeq(str, 1, Len(str) - 1))
    ELSE str

OnlySeps(str) == \A i \in 1..Len(str) : str[i] = "/"

\* C15: split(p) = (dir, name) where name is the text after the last
\* separator and contains no separator; with no separator in p, dir is empty
\* and name == p; otherwise dir is the text up to and including the last
\* separator with all trailing separators removed, except that a dir made of
\* separators only is kept unchanged; dirname(p) and basename(p) are the two
\* components of split(p).
C15_SplitLastSeparator ==
    LET last  == LastOf(text, "/")
        upto  == SubSeq(text, 1, last)
    IN  /\ op = "split" =>
            /\ pair.second = SubSeq(text, last + 1, Len(text))
            /\ ~HasSep(pair.second)
            /\ last = 0 => pair.first = <<>> /\ pair.second = text
            /\ last # 0 =>
                   pair.first = IF OnlySeps(upto) THEN upto ELSE WithoutTrailingSeps(upto)
        /\ op = "dirname" => normed = pair.first
        /\ op = "basename" => normed = pair.second

C15_Witness ==
    /\ op = "basename"
    /\ text = <<"/", "/", "a">>
    /\ pair = [first |-> <<"/", "/">>, second |-> <<"a">>]
    /\ normed = <<"a">>

\* The two roots: the values of PurePosixPath("") and PurePosixPath("/")
Roots == {PurePosixPath(<<>>), PurePosixPath(sep)}

\* C16: parent() of a root is the root itself, and for every non-root path p
\* the parts of p.parent() are the parts of p without the last element, so
\* that absoluteness is preserved.
C16_ParentDropsLast ==
    op = "parent" =>
        /\ p \in Roots => res = p
        /\ p \notin Roots => res = SubSeq(p, 1, Len(p) - 1)
        /\ is_absolute(res) = is_absolute(p)

C16_Witness ==
    /\ op = "parent"
    /\ p = <<sep, <<"a">>>>
    /\ res = <<sep>>

\* The number of segments of a path other than the separator sentinel
NonSentinel(path) == Cardinality({i \in 1..Len(path) : path[i] # sep})

\* C17: parents() terminates for every path and returns the chain parent(),
\* parent().parent(), ... with the direct parent first and a root last; its
\* length is the number of non-sentinel segments of the path, and it is
\* empty for both roots.
C17_ParentsChain ==
    /\ (op = "parents_loop") ~> (op = "parents")
    /\ [](op = "parents" =>
            /\ Len(paths) = NonSentinel(p)
            /\ \A i \in 1..Len(paths) :
                   paths[i] = parent(IF i = 1 THEN p ELSE paths[i - 1])
            /\ paths # <<>> => paths[Len(paths)] \in Roots
            /\ p \in Roots => paths = <<>>)

C17_Witness ==
    /\ op = "parents"
    /\ p = <<sep, <<"a">>, <<"a">>>>
    /\ paths = <<<<sep, <<"a">>>>, <<sep>>>>

\* C18: equality and ordering are consistent: for path values a and b
\* obtained through the public API, a == b iff string(a) == string(b), so
\* exactly one of a < b, a == b, b < a holds.
C18_EqualityMatchesOrdering ==
    op = "compare" =>
        /\ cmp.eq <=> string(p) = string(other)
        /\ cmp.ne <=> ~cmp.eq
        /\ Cardinality({r \in {"lt", "eq", "gt"} : cmp[r]}) = 1

\* C19 (as claimed): no operation changes the segments of an existing
\* path: after every call on p, also one that throws, p.parts() is what it
\* was before the call.
C19_NoCallChangesPath ==
    [][op' \notin {"PurePosixPath", "assign"} => p' = p]_vars

\* C19 (amended): no operation other than the in-place join operator/=
\* changes the segments of an existing path: after every other call on p,
\* also one that throws, p.parts() is what it was before the call, and
\* p /= x replaces the segments of p by those of p.joinpath(x).
C19_OnlyDivAssignChangesPath ==
    [][/\ op' \notin {"PurePosixPath", "assign", "operator/="} => p' = p
       /\ op' = "operator/=" => p' = joinpath(p, arg')]_vars

C19_Witness ==
    /\ op = "with_name"
    /\ thrown
    /\ arg = <<>>
    /\ p = <<sep, <<"a">>>>

\* The lexical operations by the kind of their result
ValueOps ==
    {"string", "is_absolute", "name", "parts", "root", "stem", "suffix",
     "suffixes", "operator==", "operator!=", "operator<"}
PathOps == {"joinpath", "joinpath_path", "operator/", "operator/_path", "parent"}
OutcomeOps == {"relative_to", "with_name", "with_suffix"}

\* C20: PosixPath adds no lexical behaviour of its own: for every text s and
\* every lexical operation m, PosixPath(s).m(...) gives the same result, or
\* the same error, as PurePosixPath(s).m(...).
C20_PosixPathForwards ==
    /\ op # "init" => PosixPath_parts(q) = p
    /\ op \in ValueOps => posix_out = pure_out
    /\ op \in PathOps => PosixPath_parts(posix_out) = pure_out
    /\ op = "parents" =>
           /\ Len(posix_out) = Len(pure_out)
           /\ \A i \in 1..Len(pure_out) : PosixPath_parts(posix_out[i]) = pure_out[i]
    /\ op \in OutcomeOps =>
           /\ posix_out.thrown = pure_out.thrown
           /\ ~pure_out.thrown => PosixPath_parts(posix_out.parts) = pure_out.parts

C20_Witness ==
    /\ op = "parent"
    /\ p = <<sep, <<"a">>>>
    /\ posix_out = PosixPath_pure(<<sep>>)

\* The text the filesystem calls on q hand to the system
Target == PosixPath_string(q)

\* C21: mkdir with parents=false fails with an error and creates nothing
\* whenever parent() is not an existing directory, regardless of exist_ok.
C21_MkdirNeedsParent ==
    op = "mkdir" /\ ~flags.parents /\ ~isdir(fs0, string(parent(PosixPath_parts(q)))) =>
        /\ ret.thrown
        /\ fs = fs0

C21_Witness ==
    /\ op = "mkdir"
    /\ ~flags.parents
    /\ flags.exist_ok
    /\ q = PosixPath(<<"a", "/", "a">>)
    /\ fs0 = (<<<<"a">>>> :> RegularFile(<<"a">>))
    /\ ret.thrown
    /\ fs = fs0

\* C22: mkdir with exist_ok=false on a path that already exists, as a
\* directory or as any other kind of entry, fails with an error and changes
\* nothing in the filesystem; with exist_ok=true on an existing directory it
\* returns without error and changes nothing.
C22_MkdirOnExisting ==
    op = "mkdir" /\ exists(fs0, Target) =>
        /\ ~flags.exist_ok => ret.thrown /\ fs = fs0
        /\ flags.exist_ok /\ isdir(fs0, Target) => ~ret.thrown /\ fs = fs0

\* C23: whenever mkdir returns without error, is_dir() on the same path is
\* true immediately afterwards, and with parents=true every ancestor of the
\* path is a directory as well.
C23_MkdirMakesDirectory ==
    op = "mkdir" /\ ~ret.thrown =>
        /\ PosixPath_is_dir(fs, q)
        /\ flags.parents =>
               \A i \in 1..Len(parents(PosixPath_parts(q))) :
                   isdir(fs, string(parents(PosixPath_parts(q))[i]))

\* C24 (as claimed): open() in exclusive-create mode on a path that already
\* exists fails: an error is raised to the caller, no usable stream is
\* returned, and the contents of the existing file are left unchanged.
C24_ExclusiveOpenRaises ==
    op = "open" /\ flags.mode[1] = "x" /\ exists(fs0, Target) =>
        /\ ret.thrown
        /\ ~ret.usable
        /\ fs = fs0

\* C24 (amended): open() in exclusive-create mode on a path that already
\* exists fails without raising an error: the stream returned is not open,
\* so that no read or write on it succeeds, and the contents of the
\* existing file are left unchanged.
C24_ExclusiveOpenReturnsClosed ==
    op = "open" /\ flags.mode[1] = "x" /\ exists(fs0, Target) =>
        /\ ~ret.thrown
        /\ ~ret.usable
        /\ fs = fs0

C24_Witness ==
    /\ op = "open"
    /\ flags.mode = <<"x">>
    /\ q = PosixPath(<<"a">>)
    /\ fs0 = (<<<<"a">>>> :> RegularFile(<<"a">>))
    /\ fs = fs0
    /\ ~ret.usable

\* The set of elements of a sequence
Range(seq) == {seq[i] : i \in 1..Len(seq)}

\* C25: iterdir() on an existing directory returns exactly one path per
\* entry other than "." and "..", each equal to this / entry-name, so that
\* every returned path e has e.parent() == this and e.name() equal to the
\* entry name; on a path that is not a directory it fails with an error.
C25_IterdirEntries ==
    op = "iterdir" =>
        IF isdir(fs0, Target)
        THEN LET names == children(fs0, lookup(fs0, Target).node)
             IN  /\ ~ret.thrown
                 /\ Len(ret.value) = Cardinality(names)
                 /\ Range(ret.value) = {PosixPath_div(q, nm) : nm \in names}
                 /\ \A e \in Range(ret.value) : PosixPath_parent(e) = q
                 /\ {PosixPath_name(e) : e \in Range(ret.value)} = names
        ELSE ret.thrown

\* The normalization of the segments by a stack: ".." removes the most
\* recently retained name when there is one, is retained when there is none
\* and the text is relative, and is dropped when there is none and the
\* text is absolute
RECURSIVE stack_normalize(_, _, _)
stack_normalize(items, kept, abs) ==
    IF items = <<>> THEN kept
    ELSE LET item == Head(items)
             rest == Tail(items)
         IN  IF item = <<>> \/ item = current
             THEN stack_normalize(rest, kept, abs)
             ELSE IF item # parentdir
             THEN stack_normalize(rest, Append(kept, item), abs)
             ELSE IF kept # <<>> /\ kept[Len(kept)] # parentdir
             THEN stack_normalize(rest, SubSeq(kept, 1, Len(kept) - 1), abs)
             ELSE IF ~abs
             THEN stack_normalize(rest, Append(kept, parentdir), abs)
             ELSE stack_normalize(rest, kept, abs)

\* A name segment immediately followed by ".."
NameThenParent(items) ==
    \E i \in 1..(Len(items) - 1) :
        /\ items[i] \notin {<<>>, current, parentdir}
        /\ items[i + 1] = parentdir

\* C26: normpath(s) equals the stack-based normalization of s for every
\* text s, and so never contains a name segment immediately followed by
\* "..".
C26_NormpathResolvesParents ==
    op = "normpath" =>
        /\ normed = normpath_result(text, stack_normalize(str_split(text, sep), <<>>, isabs(text)))
        /\ ~NameThenParent(str_split(normed, sep))

\* C29: in normpath the pop of the deque is never executed on an empty
\* deque: at every ".." item for which the level counter is >= 0 after
\* decrementing, the deque is non-empty and its last element is a name.
C29_PopOnNonEmptyStack ==
    op = "normpath_loop" /\ segs # <<>> /\ Head(segs) = parentdir /\ level - 1 >= 0 =>
        /\ stack # <<>>
        /\ stack[Len(stack)] \notin {<<>>, current, parentdir}

C29_Witness ==
    /\ op = "normpath_loop"
    /\ text = <<".", "/", "a", "/", ".", ".">>
    /\ segs = <<parentdir>>
    /\ level - 1 >= 0
    /\ stack = <<<<"a">>>>

\* C27: for every path whose name ends in '.', suffix() is empty and stem()
\* is the whole name; for every other path (stem(), suffix()) is
\* splitext(name()); suffix() is never the single character ".".
C27_StemSuffixFollowSplitext ==
    LET nm == name(p)
    IN  /\ op = "stem" =>
               normed = IF endswith(nm, <<".">>) THEN nm ELSE splitext(nm).root
        /\ op = "suffix" =>
               /\ normed = IF endswith(nm, <<".">>) THEN <<>> ELSE splitext(nm).ext
               /\ normed # <<".">>

\* The texts of a list one after the other
RECURSIVE Concat(_)
Concat(items) == IF items = <<>> THEN <<>> ELSE Head(items) \o Concat(Tail(items))

\* C28: suffixes() is empty when name() is empty or starts or ends with
\* '.'; otherwise it is "." + piece for each piece after the first of
\* name() split on '.', the first piece followed by the suffixes is
\* name(), and the last suffix, when there is one, is suffix().
C28_SuffixesSplitName ==
    op = "suffixes" =>
        LET nm     == name(p)
            pieces == str_split(nm, <<".">>)
        IN  IF nm = <<>> \/ startswith(nm, <<".">>) \/ endswith(nm, <<".">>)
            THEN list = <<>>
            ELSE /\ Len(list) = Len(pieces) - 1
                 /\ \A i \in 1..Len(list) : list[i] = <<".">> \o pieces[i + 1]
                 /\ pieces[1] \o Concat(list) = nm
                 /\ list # <<>> => list[Len(list)] = suffix(p)

C28_Witness ==
    /\ op = "suffixes"
    /\ p = <<<<"a", ".", ".", "a", ".", "a">>>>
    /\ list = <<<<".">>, <<".", "a">>, <<".", "a">>>>

\* The ancestors of a path that are not directories in the tree
MissingAncestors(fs_, path) ==
    {string(a) : a \in {b \in Range(parents(PurePosixPath(path))) : ~isdir(fs_, string(b))}}

\* Both callers ask for the same path or for paths with a common missing
\* ancestor, and accept an existing directory
SharedRequest ==
    /\ DOMAIN calls = Callers
    /\ \A c \in Callers : calls[c].exist_ok
    /\ \/ calls[1].path = calls[2].path
       \/ MissingAncestors(fs0, calls[1].path) \cap MissingAncestors(fs0, calls[2].path) # {}

\* C30: when two callers run mkdir(parents=true, exist_ok=true) at the same
\* time on the same path or on paths sharing missing ancestors, then under
\* every interleaving of their checks and mkdir system calls both calls
\* return without error and the requested directories exist afterwards.
C30_ConcurrentMkdirTolerated ==
    SharedRequest /\ (\A c \in Callers : calls[c].status \in {"returned", "thrown"}) =>
        \A c \in Callers :
            /\ calls[c].status = "returned"
            /\ isdir(fs, calls[c].path)

====
